---------------------------- MODULE Spec2Model ----------------------------
(***************************************************************************)
(* A model of the IPTV channel aggregator: src/main.py (ChannelManager and *)
(* the __main__ run), src/utils/parser.py (template and source parsing)    *)
(* and src/config.py (the configuration namespace).                        *)
(*                                                                         *)
(* Strings that the code transforms character by character (channel names) *)
(* are sequences of one-character strings; a code point outside ASCII is   *)
(* written "U+XXXX".  Stream URLs are atoms ("u1", ...) whose text is       *)
(* given by UrlText, so that the URL filters compute on the text.          *)
(***************************************************************************)
EXTENDS Integers, Sequences, FiniteSets, TLC

VARIABLES
    config,             \* names bound in the imported config module
    pc,                 \* position of the __main__ thread
    template_channels,  \* ChannelManager.template_channels (OrderedDict)
    all_channels,       \* ChannelManager.all_channels (OrderedDict)
    futures,            \* fetch_and_merge_channels: the submitted futures
    sorted_channels,    \* _write_channel_data: result of sort_channels_by_speed
    cursor,             \* _write_channel_data: category / chunk / channel position
    written_urls,       \* _process_channel_chunk: its local set
    m3u_file,           \* the playlist artifact: [state, lines]
    txt_file,           \* the flat artifact: [state, lines]
    probes,             \* _check_response_time: calls per URL so far, and the
                        \* <<url, result>> pairs of the last _sort_by_speed
    norm,               \* name-normaliser harness: raw name and its images
    batches,            \* merge harness: parse results still to be merged
    decode,             \* parser harness: a source's content and its parse result
    request,            \* session harness: one session.get / session.head call
    timing              \* latency harness: elapsed and recorded times of probes

vars == <<config, pc, template_channels, all_channels, futures, sorted_channels,
          cursor, written_urls, m3u_file, txt_file, probes, norm, batches,
                   decode, request, timing>>

(***************************************************************************)
(* Bounds of the model.                                                    *)
(***************************************************************************)
MaxNameLen == 4
MaxLines == 2
MaxLatency == 2

(***************************************************************************)
(* Generic sequence helpers (Python list / str / OrderedDict behaviour).   *)
(***************************************************************************)
RECURSIVE SeqsUpTo(_, _)
SeqsUpTo(S, n) ==
    IF n = 0 THEN {<<>>}
    ELSE LET shorter == SeqsUpTo(S, n - 1)
         IN  shorter \cup {Append(s, x) : s \in {t \in shorter : Len(t) = n - 1}, x \in S}

Range(s) == {s[i] : i \in 1..Len(s)}

NoDuplicates(s) == \A i, j \in 1..Len(s) : i # j => s[i] # s[j]

RECURSIVE Flatten(_)
Flatten(ss) == IF ss = <<>> THEN <<>> ELSE Head(ss) \o Flatten(Tail(ss))

\* list(OrderedDict.fromkeys(s)): first occurrences, in order
RECURSIVE FromKeys(_)
FromKeys(s) ==
    IF s = <<>> THEN <<>>
    ELSE LET front == FromKeys(SubSeq(s, 1, Len(s) - 1))
             last  == s[Len(s)]
         IN  IF last \in Range(front) THEN front ELSE Append(front, last)

\* An OrderedDict is a sequence of <<key, value>> pairs in insertion order.
Keys(d) == {d[i][1] : i \in 1..Len(d)}
KeyIndex(d, k) == CHOOSE i \in 1..Len(d) : d[i][1] = k
Get(d, k, default) == IF k \in Keys(d) THEN d[KeyIndex(d, k)][2] ELSE default
\* d[k] = v : an existing key keeps its position, a new key goes last
Put(d, k, v) ==
    IF k \in Keys(d)
    THEN [d EXCEPT ![KeyIndex(d, k)] = <<k, v>>]
    ELSE Append(d, <<k, v>>)

(***************************************************************************)
(* Characters.  IsWord is the regex class \w on str (alphanumeric code     *)
(* points and "_"), IsSpace is \s and str.isspace.  "U+01F0" is the letter *)
(* j-with-caron, whose upper case is the two code points "J" "U+030C";     *)
(* "U+030C" (combining caron, category Mn) is not alphanumeric.            *)
(***************************************************************************)
LowerLetters == {"c", "U+01F0"}
UpperLetters == {"C", "J"}
Digits == {"0", "1"}
SpaceChars == {" "}

IsWord(ch) == ch \in LowerLetters \cup UpperLetters \cup Digits \cup {"_"}
IsSpace(ch) == ch \in SpaceChars

\* str.upper() of one code point (full case mapping: may give two code points)
UpperOf(ch) ==
    CASE ch = "c" -> <<"C">>
      [] ch = "U+01F0" -> <<"J", "U+030C">>
      [] OTHER -> <<ch>>

RECURSIVE StrUpper(_)
StrUpper(s) == IF s = <<>> THEN <<>> ELSE UpperOf(Head(s)) \o StrUpper(Tail(s))

RECURSIVE LStrip(_)
LStrip(s) == IF s # <<>> /\ IsSpace(Head(s)) THEN LStrip(Tail(s)) ELSE s

RECURSIVE RStrip(_)
RStrip(s) ==
    IF s # <<>> /\ IsSpace(s[Len(s)]) THEN RStrip(SubSeq(s, 1, Len(s) - 1)) ELSE s

Strip(s) == RStrip(LStrip(s))

\* re.sub(r'[^\w\s-]', '', name)
KeptByNameRegex(ch) == IsWord(ch) \/ IsSpace(ch) \/ ch = "-"
ReSubName(name) == SelectSeq(name, KeptByNameRegex)

\* ChannelManager._clean_channel_name
_clean_channel_name(name) == StrUpper(Strip(ReSubName(name)))


(***************************************************************************)
(* The configuration namespace.  src/config.py binds the lower-case names  *)
(* (and LOGO_BASE_URL); main.py reads the upper-case names.  ConfigPy is   *)
(* the module as it is in the repository, ConfigInjected a namespace that  *)
(* also binds every name main.py reads (configuration is injected).        *)
(***************************************************************************)
ConfigPy ==
    {"ip_version_priority", "source_urls", "url_blacklist", "announcements",
     "epg_urls", "LOGO_BASE_URL"}
ConfigInjected ==
    ConfigPy \cup {"NETWORK_CONFIG", "SOURCE_URLS", "URL_BLACKLIST",
                   "OUTPUT_CONFIG", "ANNOUNCEMENTS", "EPG_URLS"}

\* config.url_blacklist / config.URL_BLACKLIST: the patterns (one, "g")
url_blacklist == {<<"g">>}
URL_BLACKLIST == url_blacklist
\* config.SOURCE_URLS
SOURCE_URLS == <<"s1", "s2">>
\* config.ANNOUNCEMENTS: one group with one entry
ANNOUNCEMENTS ==
    << [channel |-> "notice", entries |-> << [name |-> "daily", url |-> "a1"] >>] >>

(***************************************************************************)
(* Stream URLs and their text.  "u6" is a bracketed IPv6 literal; an atom  *)
(* written "x#y" is the text of x, a "#", and the text of y, as the tail   *)
(* of a TXT line may be.                                                   *)
(***************************************************************************)
AllUrls == {"u1", "u2", "u3", "u4", "u5"}
UrlText(u) ==
    CASE u = "u1" -> <<"1", ".", "1", ".", "1", ".", "1">>
      [] u = "u2" -> <<"1", ".", "1", ".", "1", ".", "0">>
      [] u = "u3" -> <<"1", ".", "1", ".", "1", ".", "1", "/", "g">>
      [] u = "u4" -> <<"1", ".", "1", ".", "1", ".", "1", "/", "G">>
      [] u = "u5" -> <<"c", "/", "c">>
      [] u = "u6" -> <<"[", "c", ":", "1", "]">>
      [] u = "u1#u2" -> <<"1", ".", "1", ".", "1", ".", "1", "#",
                          "1", ".", "1", ".", "1", ".", "0">>
      [] u = "u1#u3" -> <<"1", ".", "1", ".", "1", ".", "1", "#",
                          "1", ".", "1", ".", "1", ".", "1", "/", "g">>
      [] u = "u5#u1" -> <<"c", "/", "c", "#", "1", ".", "1", ".", "1", ".", "1">>
      [] OTHER -> <<>>

IsDigit(ch) == ch \in Digits
IsHexOrColon(ch) == ch \in Digits \cup {"c", "C", ":"}
\* str.lower() of one URL character (re.IGNORECASE comparison)
LowerOf(ch) == CASE ch = "C" -> "c" [] ch = "G" -> "g" [] OTHER -> ch
UrlWordChar(ch) == ch \in Digits \cup {"c", "C", "g", "G", "_"}

\* bl in url  (substring, case-sensitive)
IsSubstring(pat, text) ==
    \E i \in 0..(Len(text) - Len(pat)) :
        \A k \in 1..Len(pat) : text[i + k] = pat[k]

\* re.search(bl, url, re.IGNORECASE) for a pattern of literals and "."
RegexSearchIgnoreCase(pat, text) ==
    \E i \in 0..(Len(text) - Len(pat)) :
        \A k \in 1..Len(pat) :
            pat[k] = "." \/ LowerOf(text[i + k]) = LowerOf(pat[k])

\* \b(?:\d{1,3}\.){3}\d{1,3}\b matches the text from position i
DigitRun(text, i, n) ==
    i + n - 1 <= Len(text) /\ \A k \in i..(i + n - 1) : IsDigit(text[k])
BoundaryBefore(text, i) == i = 1 \/ ~UrlWordChar(text[i - 1])
BoundaryAfter(text, j) == j = Len(text) \/ ~UrlWordChar(text[j + 1])
DotAt(text, i) == i <= Len(text) /\ text[i] = "."
Ipv4At(text, i) ==
    /\ BoundaryBefore(text, i)
    /\ \E a, b, c, d \in 1..3 :
          /\ DigitRun(text, i, a) /\ DotAt(text, i + a)
          /\ DigitRun(text, i + a + 1, b) /\ DotAt(text, i + a + b + 1)
          /\ DigitRun(text, i + a + b + 2, c) /\ DotAt(text, i + a + b + c + 2)
          /\ DigitRun(text, i + a + b + c + 3, d)
          /\ BoundaryAfter(text, i + a + b + c + d + 2)
HasIpv4(text) == \E i \in 1..Len(text) : Ipv4At(text, i)
\* \[([0-9a-fA-F:]+)\]
HasBracketedIpv6(text) ==
    \E i, j \in 1..Len(text) :
        /\ i + 1 < j /\ text[i] = "[" /\ text[j] = "]"
        /\ \A k \in (i + 1)..(j - 1) : IsHexOrColon(text[k])
\* \[?[0-9a-fA-F:]+\]?
HasLooseIpv6(text) == \E i \in 1..Len(text) : IsHexOrColon(text[i])

(***************************************************************************)
(* src/utils/parser.py                                                     *)
(***************************************************************************)
parser_is_blacklisted(url) == \E bl \in url_blacklist : IsSubstring(bl, UrlText(url))
parser_has_valid_ip(url) == HasIpv4(UrlText(url)) \/ HasBracketedIpv6(UrlText(url))

_is_valid_entry(name, url) ==
    /\ name # <<>>
    /\ ~parser_is_blacklisted(url)
    /\ parser_has_valid_ip(url)

AddChannelNoDedup(channels, name, url) ==
    Put(channels, name, Append(Get(channels, name, <<>>), url))

_add_channel(channels, name, url) ==
    LET have == Get(channels, name, <<>>)
    IN  Put(channels, name, IF url \in Range(have) THEN have ELSE Append(have, url))

\* A source's content is the sequence of (name, url) entries its lines give
\* after splitting and stripping; both decoders treat an entry alike.
RECURSIVE ParseEntries(_, _)
ParseEntries(entries, channels) ==
    IF entries = <<>> THEN channels
    ELSE LET e == Head(entries)
         IN  ParseEntries(Tail(entries),
                 IF _is_valid_entry(e[1], e[2])
                 THEN _add_channel(channels, e[1], e[2])
                 ELSE channels)

parse_source_content(content) == ParseEntries(content, <<>>)

(***************************************************************************)
(* src/main.py: merging                                                    *)
(***************************************************************************)
_is_blacklisted(url) ==
    \E bl \in URL_BLACKLIST : RegexSearchIgnoreCase(bl, UrlText(url))
_has_valid_ip(url) == HasIpv4(UrlText(url)) \/ HasLooseIpv6(UrlText(url))

ValidUrls(urls) ==
    SelectSeq(urls, LAMBDA url : ~_is_blacklisted(url) /\ _has_valid_ip(url))

MergeOneOverwrite(index, name, urls) ==
    Put(index, _clean_channel_name(name), ValidUrls(urls))

\* one iteration of the loop of _merge_channels
MergeOne(index, name, urls) ==
    LET cleaned_name == _clean_channel_name(name)
        valid_urls == ValidUrls(urls)
    IN  IF cleaned_name \in Keys(index)
        THEN Put(index, cleaned_name, FromKeys(Get(index, cleaned_name, <<>>) \o valid_urls))
        ELSE Put(index, cleaned_name, valid_urls)

RECURSIVE _merge_channels(_, _)
_merge_channels(index, source_channels) ==
    IF source_channels = <<>> THEN index
    ELSE _merge_channels(MergeOne(index, Head(source_channels)[1], Head(source_channels)[2]),
                         Tail(source_channels))

(***************************************************************************)
(* src/utils/parser.py: parse_template.  A template line is <<kind, text>>:*)
(* "skip" (blank or starting with "#"), "genre" (contains "#genre#", text  *)
(* is the category before the first comma) or "channel" (text is the       *)
(* stripped line).                                                         *)
(***************************************************************************)
RECURSIVE ParseTemplateLines(_, _, _)
ParseTemplateLines(lines, template, current_category) ==
    IF lines = <<>> THEN template
    ELSE LET line == Head(lines)
         IN  CASE line[1] = "skip" ->
                    ParseTemplateLines(Tail(lines), template, current_category)
               [] line[1] = "genre" ->
                    ParseTemplateLines(Tail(lines), Put(template, line[2], <<>>), <<line[2]>>)
               [] OTHER ->
                    IF current_category # <<>>
                    THEN ParseTemplateLines(Tail(lines),
                             Put(template, current_category[1],
                                 Append(Get(template, current_category[1], <<>>), line[2])),
                             current_category)
                    ELSE ParseTemplateLines(Tail(lines), template, current_category)

parse_template(file) == ParseTemplateLines(file, <<>>, <<>>)

(***************************************************************************)
(* src/main.py: probing and ranking.  A probe result is a latency in       *)
(* 1..MaxLatency or Inf (float('inf'), greater than every latency).        *)
(***************************************************************************)
Inf == MaxLatency + 1
ProbeTimes == 1..Inf

Zip(urls, times) == [i \in 1..Len(urls) |-> <<urls[i], times[i]>>]

\* sorted(pairs, key=lambda x: x[1]): a stable sort
RECURSIVE SortedByTime(_)
SortedByTime(pairs) ==
    IF pairs = <<>> THEN <<>>
    ELSE LET rest == SortedByTime(SubSeq(pairs, 1, Len(pairs) - 1))
             last == pairs[Len(pairs)]
             pos  == Cardinality({i \in 1..Len(rest) : rest[i][2] <= last[2]})
         IN  SubSeq(rest, 1, pos) \o <<last>> \o SubSeq(rest, pos + 1, Len(rest))

\* the ranking without its filter: unreachable URLs stay, last
RankedUnfiltered(pairs) ==
    [i \in 1..Len(pairs) |-> SortedByTime(pairs)[i][1]]

\* [url for url, time in sorted(...) if time != float('inf')]
RankedReachable(pairs) ==
    LET kept == SelectSeq(SortedByTime(pairs), LAMBDA p : p[2] # Inf)
    IN  [i \in 1..Len(kept) |-> kept[i][1]]

\* _sort_by_speed(urls), the probes having returned `times`
_sort_by_speed(urls, times) == RankedReachable(Zip(urls, times))

\* _write_channel_data: chunk_size
chunk_size == 100

\* The entries _process_channel_chunk writes for one channel: enumerate(sorted_urls, 1)
\* skipping the URLs already in `written`.
RECURSIVE EntriesFor(_, _, _, _, _)
EntriesFor(category, name, sorted_urls, idx, written) ==
    IF idx > Len(sorted_urls) THEN <<>>
    ELSE LET url == sorted_urls[idx]
         IN  IF url \in written
             THEN EntriesFor(category, name, sorted_urls, idx + 1, written)
             ELSE <<[idx |-> idx, name |-> name, group |-> category, url |-> url]>>
                    \o EntriesFor(category, name, sorted_urls, idx + 1, written \cup {url})

\* _write_announcements: the playlist entries and the flat lines
RECURSIVE AnnouncementEntries(_)
AnnouncementEntries(groups) ==
    IF groups = <<>> THEN <<>>
    ELSE [i \in 1..Len(Head(groups).entries) |->
             [idx |-> i, name |-> Head(groups).entries[i].name,
              group |-> Head(groups).channel, url |-> Head(groups).entries[i].url]]
         \o AnnouncementEntries(Tail(groups))

\* a flat line that carries the entry's group instead of its name
FlatLineOfGroup(e) == [name |-> e.group, url |-> e.url]

\* txt_entry = f"{name},{url}\n" of the entry written to the playlist
FlatLine(e) == [name |-> e.name, url |-> e.url]
FlatLines(entries) == [i \in 1..Len(entries) |-> FlatLine(entries[i])]
GenreLine(category) == [genre |-> category]

RECURSIVE AnnouncementLines(_)
AnnouncementLines(groups) ==
    IF groups = <<>> THEN <<>>
    ELSE <<GenreLine(Head(groups).channel)>>
         \o FlatLines(AnnouncementEntries(<<Head(groups)>>))
         \o AnnouncementLines(Tail(groups))

(***************************************************************************)
(* Variable groups.  Each specification below drives one group and leaves  *)
(* the others at rest.                                                     *)
(***************************************************************************)
\* an output artifact: not created yet, open for writing, or closed
NoFile == [state |-> "absent", lines |-> <<>>]
Write(file, lines) == [file EXCEPT !.lines = @ \o lines]
Close(file) == [file EXCEPT !.state = "closed"]

runVars == <<config, pc, template_channels, futures, sorted_channels, cursor,
             written_urls, m3u_file, txt_file, probes>>

RunAtRest ==
    /\ config = {} /\ pc = "off" /\ template_channels = <<>> /\ futures = <<>>
    /\ sorted_channels = <<>> /\ cursor = <<>> /\ written_urls = {}
    /\ m3u_file = NoFile /\ txt_file = NoFile /\ probes = <<>>

NormAtRest == norm = <<>>
BatchesAtRest == batches = <<>>
DecodeAtRest == decode = <<>>
RequestAtRest == request = <<>>
TimingAtRest == timing = <<>>

(***************************************************************************)
(* SpecName: _clean_channel_name applied to raw names.  A source name is   *)
(* cleaned at merge time (main.py:87), a template name at match time       *)
(* (main.py:205); applying the function to its own result gives the second *)
(* image.                                                                  *)
(***************************************************************************)
NameAlphabet == {"c", "C", "0", "1", "-", " ", "!", "U+01F0"}
RawNames == SeqsUpTo(NameAlphabet, MaxNameLen)
TemplateNames == {<<"C", "1">>}

InitName ==
    /\ \E x \in RawNames, t \in TemplateNames :
          norm = [raw |-> x, tmpl |-> t, images |-> <<>>, tmpl_image |-> <<>>]
    /\ all_channels = <<>>
    /\ RunAtRest /\ BatchesAtRest /\ DecodeAtRest /\ RequestAtRest /\ TimingAtRest

CleanSourceName ==
    /\ norm.images = <<>>
    /\ norm' = [norm EXCEPT !.images = <<_clean_channel_name(norm.raw)>>]
    /\ UNCHANGED <<all_channels, runVars, batches, decode, request, timing>>

CleanTemplateName ==
    /\ norm.tmpl_image = <<>>
    /\ norm' = [norm EXCEPT !.tmpl_image = <<_clean_channel_name(norm.tmpl)>>]
    /\ UNCHANGED <<all_channels, runVars, batches, decode, request, timing>>

CleanAgain ==
    /\ Len(norm.images) = 1
    /\ norm' = [norm EXCEPT !.images = Append(@, _clean_channel_name(@[1]))]
    /\ UNCHANGED <<all_channels, runVars, batches, decode, request, timing>>

NextName == CleanSourceName \/ CleanTemplateName \/ CleanAgain

SpecName == InitName /\ [][NextName]_vars

(***************************************************************************)
(* SpecMerge: _merge_channels applied to the parse results of the sources   *)
(* BatchIds, in any order.                                                 *)
(***************************************************************************)
BatchIds == {1, 2}
MergeEntries ==
    ({<<"c", "1">>, <<"C", "1">>} \X {"u1", "u2"})
        \cup {<<(<<"C", "-", "0", "1">>), "u1">>, <<(<<"c", "1">>), "u4">>}
MergeContents == SeqsUpTo(MergeEntries, MaxLines)

InitMerge ==
    /\ \E c \in [BatchIds -> MergeContents] :
          batches = [results |-> [i \in BatchIds |-> parse_source_content(c[i])],
                     pending |-> BatchIds]
    /\ all_channels = <<>>
    /\ RunAtRest /\ NormAtRest /\ DecodeAtRest /\ RequestAtRest /\ TimingAtRest

MergeBatch(i) ==
    /\ i \in batches.pending
    /\ all_channels' = _merge_channels(all_channels, batches.results[i])
    /\ batches' = [batches EXCEPT !.pending = @ \ {i}]
    /\ UNCHANGED <<runVars, norm, decode, request, timing>>

NextMerge == \E i \in BatchIds : MergeBatch(i)

SpecMerge == InitMerge /\ [][NextMerge]_vars

(***************************************************************************)
(* SpecParse: parse_source_content applied to a TXT source.  A line        *)
(* "name,tail" is <<name, tail>>: line.split(",", 1) gives the name and    *)
(* the whole tail, which _parse_txt hands on as the URL.                   *)
(***************************************************************************)
TxtNames == {<<>>, <<"c", "1">>, <<"C", "1">>}
TxtTails == {"u1", "u2", "u3", "u4", "u5", "u6", "u1#u2", "u1#u3", "u5#u1"}
TxtLines == TxtNames \X TxtTails
TxtContents == SeqsUpTo(TxtLines, MaxLines)

InitParse ==
    /\ \E content \in TxtContents :
          decode = [content |-> content, channels |-> <<>>, returned |-> FALSE]
    /\ all_channels = <<>>
    /\ RunAtRest /\ NormAtRest /\ BatchesAtRest /\ RequestAtRest /\ TimingAtRest

\* parse_source_content(content, "txt")
DecodeSource ==
    /\ ~decode.returned
    /\ decode' = [decode EXCEPT !.channels = parse_source_content(decode.content),
                                !.returned = TRUE]
    /\ UNCHANGED <<all_channels, runVars, norm, batches, request, timing>>

NextParse == DecodeSource

SpecParse == InitParse /\ [][NextParse]_vars

(***************************************************************************)
(* SpecSession: one request through self.session.  _create_session mounts  *)
(* one HTTPAdapter, for http:// and https://, with                         *)
(*   Retry(total=max_retries, backoff_factor=1,                            *)
(*         status_forcelist=[429, 500, 502, 503, 504])                     *)
(* and both _fetch_url_content (session.get) and _check_response_time      *)
(* (session.head) send through it.  Retry counts retries: `total` further  *)
(* attempts are allowed after the first one; GET and HEAD are among its    *)
(* allowed methods.  An attempt ends in a response with a status, a        *)
(* network failure or a timeout.                                           *)
(***************************************************************************)
\* config.NETWORK_CONFIG["max_retries"]
MaxRetries == 2
status_forcelist == {"429", "500", "502", "503", "504"}
Statuses == {"200", "404", "429", "500", "501", "503"}
Outcomes == Statuses \cup {"neterr", "timeout"}
Methods == {"GET", "HEAD"}

\* a policy that retries after every 5xx status
RetryDueAny5xx(outcome) ==
    outcome \in {"neterr", "timeout", "429", "500", "501", "502", "503", "504"}

\* the adapter's policy: is another attempt due after this outcome
RetryDue(outcome) == outcome \in {"neterr", "timeout"} \cup status_forcelist

\* response.raise_for_status(): HTTPError for a 4xx or 5xx status
RaisesForStatus(status) == status # "200"

InitSession ==
    /\ \E method \in Methods :
          request = [method |-> method, attempts |-> <<>>, state |-> "sending",
                     result |-> "none"]
    /\ all_channels = <<>>
    /\ RunAtRest /\ NormAtRest /\ BatchesAtRest /\ DecodeAtRest /\ TimingAtRest

\* the adapter sends one attempt; after an outcome that calls for a retry it
\* sends again while retries are left, and raises when they are used up
SessionAttempt ==
    /\ request.state = "sending"
    /\ \E outcome \in Outcomes :
          request' = [request EXCEPT
                        !.attempts = Append(@, outcome),
                        !.state = IF RetryDue(outcome)
                                  THEN IF Len(request.attempts) < MaxRetries
                                       THEN "sending" ELSE "raised"
                                  ELSE "responded"]
    /\ UNCHANGED <<all_channels, runVars, norm, batches, decode, timing>>

\* _fetch_url_content: session.get returned or raised, then raise_for_status
FetchReturn ==
    /\ request.method = "GET"
    /\ request.state \in {"responded", "raised"}
    /\ request' = [request EXCEPT
                      !.state = "finished",
                      !.result = IF request.state = "raised"
                                    \/ RaisesForStatus(request.attempts[Len(request.attempts)])
                                 THEN "error" ELSE "content"]
    /\ UNCHANGED <<all_channels, runVars, norm, batches, decode, timing>>

\* _check_response_time: session.head returned (whatever the status) and the
\* elapsed time is the result, or it raised and the result is float('inf')
ProbeReturn ==
    /\ request.method = "HEAD"
    /\ request.state \in {"responded", "raised"}
    /\ request' = [request EXCEPT
                      !.state = "finished",
                      !.result = IF request.state = "raised" THEN "inf" ELSE "latency"]
    /\ UNCHANGED <<all_channels, runVars, norm, batches, decode, timing>>

NextSession == SessionAttempt \/ FetchReturn \/ ProbeReturn

SpecSession == InitSession /\ [][NextSession]_vars

(***************************************************************************)
(* SpecLatency: what _check_response_time returns for a probe that         *)
(* answered.  Times are in milliseconds.  The request of a URL takes       *)
(* `elapsed`; datetime.now() - start is a timedelta, whose .microseconds   *)
(* field is the part of it below one second (whole seconds are in          *)
(* .seconds), and the function returns that field divided by 1000.         *)
(***************************************************************************)
MaxTicks == 12
\* the elapsed times considered: every tenth of a second up to MaxTicks tenths
ElapsedMillis == {k * 100 : k \in 0..MaxTicks}
ProbedUrls == {"u1", "u2"}

\* (datetime.now() - start).microseconds / 1000
RecordedLatency(elapsed) == elapsed % 1000

InitLatency ==
    /\ \E elapsed \in [ProbedUrls -> ElapsedMillis] :
          timing = [elapsed |-> elapsed, results |-> <<>>]
    /\ all_channels = <<>>
    /\ RunAtRest /\ NormAtRest /\ BatchesAtRest /\ DecodeAtRest /\ RequestAtRest

\* _check_response_time(url) for a URL that answers, and
\* results.append((current_url, response_time)) of sort_channels_by_speed
CheckResponseTime(url) ==
    /\ \A i \in 1..Len(timing.results) : timing.results[i][1] # url
    /\ timing' = [timing EXCEPT
                     !.results = Append(@, <<url, RecordedLatency(timing.elapsed[url])>>)]
    /\ UNCHANGED <<all_channels, runVars, norm, batches, decode, request>>

NextLatency == \E url \in ProbedUrls : CheckResponseTime(url)

SpecLatency == InitLatency /\ [][NextLatency]_vars

(***************************************************************************)
(* Spec: the __main__ run.                                                 *)
(*   manager = ChannelManager("demo.txt")                                  *)
(*   manager.fetch_and_merge_channels()                                    *)
(*   manager.generate_output_files()                                       *)
(* The template file and the sources' contents are inputs read during the  *)
(* run; fetch and probe outcomes are chosen by the network.                *)
(***************************************************************************)
MaxTemplateLines == 4
MaxSourceLines == 1

TemplateLineSet ==
    {<<"genre", "A">>, <<"genre", "B">>,
     <<"channel", <<"c", "1">>>>, <<"channel", <<"C", "-", "0", "1">>>>}
TemplateFiles == SeqsUpTo(TemplateLineSet, MaxTemplateLines)

\* the entries the i-th source may list: both sources know both channels,
\* with one URL in common and one of their own
SourceEntries(i) ==
    IF i = 1
    THEN {<<(<<"c", "1">>), "u1">>, <<(<<"C", "-", "0", "1">>), "u1">>}
    ELSE {<<(<<"c", "1">>), "u2">>, <<(<<"C", "-", "0", "1">>), "u1">>}
SourceContents(i) == SeqsUpTo(SourceEntries(i), MaxSourceLines)

NoCalls == [u \in AllUrls |-> 0]
RECURSIVE Called(_, _)
Called(calls, urls) ==
    IF urls = <<>> THEN calls
    ELSE Called([calls EXCEPT ![Head(urls)] = @ + 1], Tail(urls))

Init ==
    /\ config \in {ConfigPy, ConfigInjected}
    /\ pc = "start"
    /\ template_channels = <<>>
    /\ all_channels = <<>>
    /\ futures = <<>>
    /\ sorted_channels = <<>>
    /\ cursor = <<>>
    /\ written_urls = {}
    /\ m3u_file = NoFile
    /\ txt_file = NoFile
    /\ probes = [calls |-> NoCalls, last |-> <<>>]
    /\ NormAtRest /\ BatchesAtRest /\ DecodeAtRest /\ RequestAtRest /\ TimingAtRest

\* ChannelManager.__init__: parse_template, all_channels, _create_session.
\* _create_session reads config.NETWORK_CONFIG; an unbound name raises
\* AttributeError, which nothing in __main__ catches.
Construct ==
    /\ pc = "start"
    /\ \E file \in TemplateFiles : template_channels' = parse_template(file)
    /\ all_channels' = <<>>
    /\ pc' = IF "NETWORK_CONFIG" \in config THEN "constructed" ELSE "crashed"
    /\ UNCHANGED <<config, futures, sorted_channels, cursor, written_urls,
                   m3u_file, txt_file, probes, norm, batches,
                   decode, request, timing>>

\* fetch_and_merge_channels: one future per source, all submitted at once
\* (the pool has 10 workers)
Submit ==
    /\ pc = "constructed"
    /\ IF "SOURCE_URLS" \in config
       THEN /\ futures' = [i \in 1..Len(SOURCE_URLS) |->
                             [state |-> "running", fetched |-> FALSE,
                              result |-> <<>>, await |-> "pending", seq |-> 0]]
            /\ pc' = "fetching"
       ELSE /\ futures' = futures
            /\ pc' = "crashed"
    /\ UNCHANGED <<config, template_channels, all_channels, sorted_channels, cursor,
                   written_urls, m3u_file, txt_file, probes, norm, batches,
                   decode, request, timing>>

\* the position of a worker's completion among the completions so far
\* (a history field of the future; the program does not read it)
Completed == {j \in 1..Len(futures) : futures[j].state = "done"}
NextSeq == Cardinality(Completed) + 1

\* a worker that merges its parse result into all_channels itself
ProcessSourceMerging(i) ==
    /\ pc = "fetching"
    /\ futures[i].state = "running"
    /\ \E content \in SourceContents(i) :
          /\ futures' = [futures EXCEPT ![i].state = "done", ![i].fetched = TRUE,
                                        ![i].seq = NextSeq]
          /\ all_channels' = _merge_channels(all_channels, parse_source_content(content))
    /\ UNCHANGED <<config, pc, template_channels, sorted_channels, cursor,
                   written_urls, m3u_file, txt_file, probes, norm, batches,
                   decode, request, timing>>

\* _process_source in a worker thread: the fetch raises and the source gives
\* an empty OrderedDict, or it returns content, which is parsed
ProcessSource(i) ==
    /\ pc = "fetching"
    /\ futures[i].state = "running"
    /\ \/ futures' = [futures EXCEPT ![i].state = "done", ![i].seq = NextSeq]
       \/ \E content \in SourceContents(i) :
             futures' = [futures EXCEPT ![i].state = "done", ![i].fetched = TRUE,
                                        ![i].seq = NextSeq,
                                        ![i].result = parse_source_content(content)]
    /\ UNCHANGED <<config, pc, template_channels, all_channels, sorted_channels, cursor,
                   written_urls, m3u_file, txt_file, probes, norm, batches,
                   decode, request, timing>>

Pending == {i \in 1..Len(futures) : futures[i].await = "pending"}
\* taking the futures from the end of the list
NextFutureLast == CHOOSE i \in Pending : \A j \in Pending : i >= j
\* for future in futures: the first future not yet awaited
NextFuture == CHOOSE i \in Pending : \A j \in Pending : i <= j

\* future.result(timeout=60) returns and the result is merged
AwaitResult ==
    /\ pc = "fetching" /\ Pending # {}
    /\ futures[NextFuture].state = "done"
    /\ all_channels' = _merge_channels(all_channels, futures[NextFuture].result)
    /\ futures' = [futures EXCEPT ![NextFuture].await = "merged"]
    /\ UNCHANGED <<config, pc, template_channels, sorted_channels, cursor,
                   written_urls, m3u_file, txt_file, probes, norm, batches,
                   decode, request, timing>>

\* future.result(timeout=60) raises TimeoutError before the worker is done;
\* the except clause logs it and the loop goes on
AwaitTimeout ==
    /\ pc = "fetching" /\ Pending # {}
    /\ futures[NextFuture].state = "running"
    /\ futures' = [futures EXCEPT ![NextFuture].await = "timeout"]
    /\ UNCHANGED <<config, pc, template_channels, all_channels, sorted_channels, cursor,
                   written_urls, m3u_file, txt_file, probes, norm, batches,
                   decode, request, timing>>

\* leaving the with block joins the workers; fetch_and_merge_channels returns
ExecutorExit ==
    /\ pc = "fetching" /\ Pending = {}
    /\ \A i \in 1..Len(futures) : futures[i].state = "done"
    /\ pc' = "merged"
    /\ UNCHANGED <<config, template_channels, all_channels, futures, sorted_channels,
                   cursor, written_urls, m3u_file, txt_file, probes, norm, batches,
                   decode, request, timing>>

\* generate_output_files up to _write_announcements: both files are created,
\* the header and the announcements are written
OpenOutputs ==
    /\ pc = "merged"
    /\ m3u_file' = [state |-> "open",
                    lines |-> <<[header |-> "EXTM3U"]>> \o AnnouncementEntries(ANNOUNCEMENTS)]
    /\ txt_file' = [state |-> "open", lines |-> AnnouncementLines(ANNOUNCEMENTS)]
    /\ futures' = <<>>
    /\ cursor' = [k |-> 0]
    /\ pc' = "sorting"
    /\ UNCHANGED <<config, template_channels, all_channels, sorted_channels,
                   written_urls, probes, norm, batches,
                   decode, request, timing>>

\* sort_channels_by_speed: one iteration of the loop over all_channels
SortChannel ==
    /\ pc = "sorting" /\ cursor.k < Len(all_channels)
    /\ LET channel_name == all_channels[cursor.k + 1][1]
           urls == all_channels[cursor.k + 1][2]
       IN  \E times \in [1..Len(urls) -> ProbeTimes] :
              /\ sorted_channels' =
                     Put(sorted_channels, channel_name, RankedReachable(Zip(urls, times)))
              /\ probes' = [probes EXCEPT !.calls = Called(probes.calls, urls)]
    /\ cursor' = [k |-> cursor.k + 1]
    /\ UNCHANGED <<config, pc, template_channels, all_channels, futures,
                   written_urls, m3u_file, txt_file, norm, batches,
                   decode, request, timing>>

\* sort_channels_by_speed returns into _write_channel_data
SortReturn ==
    /\ pc = "sorting" /\ cursor.k = Len(all_channels)
    /\ pc' = "rendering"
    /\ cursor' = [cat |-> 0, chan |-> 0]
    /\ UNCHANGED <<config, template_channels, all_channels, futures, sorted_channels,
                   written_urls, m3u_file, txt_file, probes, norm, batches,
                   decode, request, timing>>

\* iterating sorted(self.template_channels) instead of the OrderedDict
RECURSIVE SortedCategories(_)
SortedCategories(template) ==
    IF template = <<>> THEN <<>>
    ELSE LET rest == SortedCategories(SubSeq(template, 1, Len(template) - 1))
             last == template[Len(template)]
         IN  IF last[1] = "A" THEN <<last>> \o rest ELSE Append(rest, last)
TemplateCategorySorted(i) == SortedCategories(template_channels)[i]

\* for category in self.template_channels: the i-th category and its channels
TemplateCategory(i) == template_channels[i]

CategoryDone ==
    IF cursor.cat = 0 THEN TRUE ELSE cursor.chan = Len(TemplateCategory(cursor.cat)[2])

\* _process_channel_chunk has returned: its locals (written_urls, and the
\* results of its last _sort_by_speed) are gone
ChunkReturned == [probes EXCEPT !.last = <<>>]

\* _write_channel_data: the next category's delimiter line
WriteCategory ==
    /\ pc = "rendering" /\ CategoryDone /\ cursor.cat < Len(template_channels)
    /\ txt_file' = Write(txt_file, <<GenreLine(TemplateCategory(cursor.cat + 1)[1])>>)
    /\ cursor' = [cat |-> cursor.cat + 1, chan |-> 0]
    /\ written_urls' = {}
    /\ probes' = ChunkReturned
    /\ UNCHANGED <<config, pc, template_channels, all_channels, futures, sorted_channels,
                   m3u_file, norm, batches, decode, request, timing>>

\* the written_urls a channel at 0-based position pos of its category starts
\* with: _process_channel_chunk makes a new set for every chunk
WrittenAt(pos) == IF pos % chunk_size = 0 THEN {} ELSE written_urls

\* _process_channel_chunk: one iteration of the loop over the chunk's channels
ProcessChannel ==
    /\ pc = "rendering" /\ ~CategoryDone
    /\ LET category == TemplateCategory(cursor.cat)[1]
           channel_name == TemplateCategory(cursor.cat)[2][cursor.chan + 1]
           cleaned_name == _clean_channel_name(channel_name)
           urls == Get(sorted_channels, cleaned_name, <<>>)
           unique_urls == FromKeys(urls)
           written == WrittenAt(cursor.chan)
       IN  \E times \in [1..Len(unique_urls) -> ProbeTimes] :
              LET sorted_urls == _sort_by_speed(unique_urls, times)
                  entries == EntriesFor(category, cleaned_name, sorted_urls, 1, written)
              IN  /\ m3u_file' = Write(m3u_file, entries)
                  /\ txt_file' = Write(txt_file, FlatLines(entries))
                  /\ written_urls' = written \cup Range(sorted_urls)
                  /\ probes' = [calls |-> Called(probes.calls, unique_urls),
                                last |-> Zip(unique_urls, times)]
    /\ cursor' = [cursor EXCEPT !.chan = @ + 1]
    /\ UNCHANGED <<config, pc, template_channels, all_channels, futures,
                   sorted_channels, norm, batches,
                   decode, request, timing>>

\* _write_channel_data returns, the files are closed, __main__ ends
Finish ==
    /\ pc = "rendering" /\ CategoryDone /\ cursor.cat = Len(template_channels)
    /\ m3u_file' = Close(m3u_file)
    /\ txt_file' = Close(txt_file)
    /\ pc' = "done"
    /\ written_urls' = {}
    /\ probes' = ChunkReturned
    /\ UNCHANGED <<config, template_channels, all_channels, futures, sorted_channels,
                   cursor, norm, batches, decode, request, timing>>

Next ==
    \/ Construct
    \/ Submit
    \/ \E i \in 1..Len(SOURCE_URLS) : ProcessSource(i)
    \/ AwaitResult
    \/ AwaitTimeout
    \/ ExecutorExit
    \/ OpenOutputs
    \/ SortChannel
    \/ SortReturn
    \/ WriteCategory
    \/ ProcessChannel
    \/ Finish

Spec == Init /\ [][Next]_vars

(***************************************************************************)
(* Claims about the name normaliser (SpecName).                            *)
(***************************************************************************)

\* What the specification calls the same channel: two names that differ only
\* in letter case, punctuation (hyphens included), repeated whitespace or
\* zero-padding of digit runs.
RECURSIVE CollapseSpaces(_)
CollapseSpaces(s) ==
    IF Len(s) < 2 THEN s
    ELSE IF IsSpace(s[1]) /\ IsSpace(s[2]) THEN CollapseSpaces(Tail(s))
    ELSE <<Head(s)>> \o CollapseSpaces(Tail(s))

RECURSIVE DropZeroPadding(_, _)
DropZeroPadding(s, afterDigit) ==
    IF s = <<>> THEN <<>>
    ELSE IF Head(s) = "0" /\ ~afterDigit /\ Len(s) > 1 /\ IsDigit(s[2])
         THEN DropZeroPadding(Tail(s), FALSE)
         ELSE <<Head(s)>> \o DropZeroPadding(Tail(s), IsDigit(Head(s)))

SuperficialForm(name) ==
    LET lettersAndSpaces == SelectSeq(name, LAMBDA ch : IsWord(ch) \/ IsSpace(ch))
    IN  DropZeroPadding(StrUpper(Strip(CollapseSpaces(lettersAndSpaces))), FALSE)

DifferOnlySuperficially(x, y) == SuperficialForm(x) = SuperficialForm(y)

\* C4: name normalisation is idempotent: the image of an image of a raw name
\* is that image again (every cleaned name is a fixed point).
CleanIsIdempotent ==
    Len(norm.images) = 2 => norm.images[2] = norm.images[1]

\* C5: a source name and a template name that differ only in letter case,
\* punctuation (hyphens included), repeated whitespace or zero-padding of
\* digit runs are cleaned to the same canonical name, so the template entry
\* is matched to the source's URLs.
SuperficialVariantsMatch ==
    (/\ norm.images # <<>> /\ norm.tmpl_image # <<>>
     /\ DifferOnlySuperficially(norm.raw, norm.tmpl))
        => norm.images[1] = norm.tmpl_image[1]

(***************************************************************************)
(* Claims about merging (SpecMerge).                                       *)
(***************************************************************************)
AsSets(index) == [k \in Keys(index) |-> Range(Get(index, k, <<>>))]

RECURSIVE MergeInOrder(_, _)
MergeInOrder(index, ids) ==
    IF ids = <<>> THEN index
    ELSE MergeInOrder(_merge_channels(index, batches.results[Head(ids)]), Tail(ids))

\* C2: whatever the order in which the parse results were merged, the final
\* all_channels has the keys and, per key, the URL set of the merge in the
\* order of the source list.
MergeCommutes ==
    batches.pending = {} => AsSets(all_channels) = AsSets(MergeInOrder(<<>>, <<1, 2>>))

\* the merges ran in another order than the list's and the lists show it
MergeCommutesWitness ==
    /\ batches.pending = {}
    /\ all_channels # MergeInOrder(<<>>, <<1, 2>>)
    /\ \E k \in Keys(all_channels) : Cardinality(Range(Get(all_channels, k, <<>>))) = 2

\* C3: after any sequence of merges no candidate list of all_channels holds
\* a URL twice, and no canonical name is a key twice.
DedupInvariant ==
    /\ \A i \in 1..Len(all_channels) : NoDuplicates(all_channels[i][2])
    /\ \A i, j \in 1..Len(all_channels) : i # j => all_channels[i][1] # all_channels[j][1]

\* one source lists the same URL under two raw names with one canonical name,
\* the other source lists it again, and both are merged
DedupWitness ==
    /\ batches.pending = {}
    /\ \E b \in BatchIds : \E i, j \in 1..Len(batches.results[b]) :
          /\ i # j
          /\ _clean_channel_name(batches.results[b][i][1])
                = _clean_channel_name(batches.results[b][j][1])
          /\ "u1" \in Range(batches.results[b][i][2]) \cap Range(batches.results[b][j][2])
    /\ \A b \in BatchIds : \E i \in 1..Len(batches.results[b]) :
          "u1" \in Range(batches.results[b][i][2])
    /\ \E k \in Keys(all_channels) : "u1" \in Range(Get(all_channels, k, <<>>))

\* C18: the merger filters nothing: once a parse result is merged, every URL
\* of every one of its records is in all_channels under the canonical name
\* of the record's channel.
MergerKeepsAll ==
    \A b \in BatchIds \ batches.pending :
        \A k \in 1..Len(batches.results[b]) :
            Range(batches.results[b][k][2])
                \subseteq Range(Get(all_channels,
                                    _clean_channel_name(batches.results[b][k][1]), <<>>))

(***************************************************************************)
(* Claims about the parser (SpecParse).                                    *)
(***************************************************************************)
\* tail.split("#"): the candidate URLs a TXT tail declares
HashParts(tail) ==
    CASE tail = "u1#u2" -> <<"u1", "u2">>
      [] tail = "u1#u3" -> <<"u1", "u3">>
      [] tail = "u5#u1" -> <<"u5", "u1">>
      [] OTHER -> <<tail>>

\* C11: a TXT line name,url1#url2#...#urlN gives the channel the N separate
\* candidates url1..urlN, each filtered on its own and listed once: every
\* part that passes the filters is a candidate of the name, and every
\* candidate is a single URL.
TxtTailSplit ==
    decode.returned =>
        /\ \A i \in 1..Len(decode.content) :
              \A part \in Range(HashParts(decode.content[i][2])) :
                 _is_valid_entry(decode.content[i][1], part)
                    => part \in Range(Get(decode.channels, decode.content[i][1], <<>>))
        /\ \A k \in 1..Len(decode.channels) :
              /\ NoDuplicates(decode.channels[k][2])
              /\ \A url \in Range(decode.channels[k][2]) : HashParts(url) = <<url>>

\* C12: every URL in a record returned by parse_source_content matches no
\* blacklist pattern, letter case ignored, and contains an IPv4 dotted quad
\* or a bracketed IPv6 literal.
ParserFilter ==
    decode.returned =>
        \A k \in 1..Len(decode.channels) : \A url \in Range(decode.channels[k][2]) :
            /\ \A bl \in url_blacklist : ~RegexSearchIgnoreCase(bl, UrlText(url))
            /\ HasIpv4(UrlText(url)) \/ HasBracketedIpv6(UrlText(url))

(***************************************************************************)
(* Claims about requests (SpecSession).                                    *)
(***************************************************************************)
Finished(method) == request.method = method /\ request.state = "finished"
NumAttempts == Len(request.attempts)
LastOutcome == request.attempts[NumAttempts]
NoResponse == {"neterr", "timeout"}

\* C16: a probe makes exactly one request attempt, whatever the retry policy
\* of the source fetches, and an attempt that failed makes the probe's
\* result infinite.
ProbeSingleAttempt ==
    Finished("HEAD") =>
        /\ NumAttempts = 1
        /\ (\E k \in 1..NumAttempts : request.attempts[k] \in NoResponse)
              => request.result = "inf"

Is5xx(outcome) == outcome \in {"500", "501", "502", "503", "504"}
Is4xx(outcome) == outcome \in {"404", "429"}
ClaimedRetryable(outcome) == outcome \in NoResponse \/ Is5xx(outcome) \/ outcome = "429"

ConfiguredRetryable(outcome) ==
    outcome \in NoResponse \cup {"429", "500", "502", "503", "504"}

LatencyIsElapsed ==
    /\ \A i \in 1..Len(timing.results) :
          timing.results[i][2] = timing.elapsed[timing.results[i][1]]
    /\ \A i, j \in 1..Len(timing.results) :
          timing.elapsed[timing.results[i][1]] > timing.elapsed[timing.results[j][1]]
             => timing.results[i][2] >= timing.results[j][2]

(***************************************************************************)
(* Claims about the run (Spec).                                            *)
(***************************************************************************)
IsEntry(line) == "url" \in DOMAIN line
Urls(file) ==
    LET entries == SelectSeq(file.lines, IsEntry)
    IN  [i \in 1..Len(entries) |-> entries[i].url]

\* C1: after a complete render pass every URL appears in at most one entry
\* of the playlist and in at most one line of the flat listing.
GlobalWriteOnce ==
    pc = "done" => NoDuplicates(Urls(m3u_file)) /\ NoDuplicates(Urls(txt_file))

\* a step of _process_channel_chunk for one template channel, and what it wrote
IsChannelStep ==
    /\ pc = "rendering" /\ pc' = "rendering"
    /\ cursor'.cat = cursor.cat /\ cursor'.chan = cursor.chan + 1
StepCategory == TemplateCategory(cursor.cat)[1]
StepName == _clean_channel_name(TemplateCategory(cursor.cat)[2][cursor.chan + 1])
Emitted == SubSeq(m3u_file'.lines, Len(m3u_file.lines) + 1, Len(m3u_file'.lines))
EmittedFlat == SubSeq(txt_file'.lines, Len(txt_file.lines) + 1, Len(txt_file'.lines))
\* the result of the probe that decided the emission of url in this step
DecidingLatency(url) == (CHOOSE p \in Range(probes'.last) : p[1] = url)[2]
PositionIn(seq, x) == CHOOSE i \in 1..Len(seq) : seq[i] = x

\* C6: the URLs emitted for a channel are in ascending order of the latency
\* of the probe that decided their emission, none of them failed its probe,
\* and URLs of equal latency come in the order of their first insertion in
\* the channel's candidate list all_channels[name].
RankingOrder ==
    [][IsChannelStep =>
        \A i, j \in 1..Len(Emitted) :
            /\ DecidingLatency(Emitted[i].url) # Inf
            /\ i < j =>
                 /\ DecidingLatency(Emitted[i].url) <= DecidingLatency(Emitted[j].url)
                 /\ DecidingLatency(Emitted[i].url) = DecidingLatency(Emitted[j].url)
                      => PositionIn(Get(all_channels, StepName, <<>>), Emitted[i].url)
                           < PositionIn(Get(all_channels, StepName, <<>>), Emitted[j].url)]_vars

RECURSIVE CollapseRepeats(_)
CollapseRepeats(s) ==
    IF Len(s) < 2 THEN s
    ELSE IF s[1] = s[2] THEN CollapseRepeats(Tail(s))
    ELSE <<Head(s)>> \o CollapseRepeats(Tail(s))

RECURSIVE IsSubsequence(_, _)
IsSubsequence(a, b) ==
    IF a = <<>> THEN TRUE
    ELSE IF b = <<>> THEN FALSE
    ELSE IF Head(a) = Head(b) THEN IsSubsequence(Tail(a), Tail(b))
    ELSE IsSubsequence(a, Tail(b))

IsPrefix(a, b) == Len(a) <= Len(b) /\ SubSeq(b, 1, Len(a)) = a

\* the (category, channel) pairs of the template, in the template's order
TemplatePairs ==
    Flatten([c \in 1..Len(template_channels) |->
                [k \in 1..Len(template_channels[c][2]) |->
                    <<template_channels[c][1],
                      _clean_channel_name(template_channels[c][2][k])>>]])
TemplateCategories == [c \in 1..Len(template_channels) |-> template_channels[c][1]]

\* what the outputs hold after the announcement block
NumAnnounced == Len(AnnouncementEntries(ANNOUNCEMENTS))
RenderedEntries == SubSeq(m3u_file.lines, NumAnnounced + 2, Len(m3u_file.lines))
RenderedPairs == [i \in 1..Len(RenderedEntries) |->
                     <<RenderedEntries[i].group, RenderedEntries[i].name>>]
RenderedFlat ==
    SubSeq(txt_file.lines, Len(AnnouncementLines(ANNOUNCEMENTS)) + 1, Len(txt_file.lines))
RenderedGenres ==
    LET genres == SelectSeq(RenderedFlat, LAMBDA line : ~IsEntry(line))
    IN  [i \in 1..Len(genres) |-> genres[i].genre]

\* C7: at every moment of the render pass the entries written follow the
\* template: their (category, channel) pairs run through the template's
\* categories and channels in the template's order, and the category lines
\* of the flat listing are the template's categories in order (all of them
\* once the pass is complete), whatever all_channels' key order is.
TemplateAuthority ==
    m3u_file.state # "absent" =>
        /\ IsSubsequence(CollapseRepeats(RenderedPairs), TemplatePairs)
        /\ IsPrefix(RenderedGenres, TemplateCategories)
        /\ pc = "done" => RenderedGenres = TemplateCategories

\* two channels are rendered in the template's order although all_channels
\* holds them in the opposite order
TemplateAuthorityWitness ==
    /\ pc = "done"
    /\ Len(all_channels) = 2 /\ Len(CollapseRepeats(RenderedPairs)) = 2
    /\ CollapseRepeats(RenderedPairs)[1][2] = all_channels[2][1]
    /\ CollapseRepeats(RenderedPairs)[2][2] = all_channels[1][1]

\* C8: a template channel with no entry in the index, or whose candidates
\* all failed their probes, writes nothing to either output and raises no
\* error; every template channel writes one entry, to both outputs, for
\* each of its candidates that answered both probes and is not yet in the
\* chunk's written_urls.
StepReachable == {p[1] : p \in {q \in Range(probes'.last) : q[2] # Inf}}
Omission ==
    [][IsChannelStep =>
        /\ (StepName \notin Keys(all_channels) \/ StepReachable = {})
              => m3u_file' = m3u_file /\ txt_file' = txt_file
        /\ \A u \in StepReachable \ WrittenAt(cursor.chan) :
              /\ \E i \in 1..Len(Emitted) :
                    /\ Emitted[i].url = u
                    /\ Emitted[i].name = StepName /\ Emitted[i].group = StepCategory
              /\ \E i \in 1..Len(EmittedFlat) :
                    EmittedFlat[i] = [name |-> StepName, url |-> u]
        /\ Len(Emitted) = Cardinality(StepReachable \ WrittenAt(cursor.chan))]_vars

\* a complete run in which a template channel without index entry comes
\* before a channel of the same category that is emitted
OmissionWitness ==
    /\ pc = "done"
    /\ \E c \in 1..Len(template_channels) :
         \E i, j \in 1..Len(template_channels[c][2]) :
            /\ i < j
            /\ _clean_channel_name(template_channels[c][2][i]) \notin Keys(all_channels)
            /\ \E k \in 1..Len(RenderedPairs) :
                  RenderedPairs[k] = <<template_channels[c][1],
                                       _clean_channel_name(template_channels[c][2][j])>>

\* The index that the sources S contribute: per canonical name, the URLs
\* their records list under it that the merge-time filter keeps.
SourceRecords(S) == UNION {{<<i, k>> : k \in 1..Len(futures[i].result)} : i \in S}
RecordName(r) == _clean_channel_name(futures[r[1]].result[r[2]][1])
RecordUrls(r) == Range(ValidUrls(futures[r[1]].result[r[2]][2]))
ExpectedIndex(S) ==
    [n \in {RecordName(r) : r \in SourceRecords(S)} |->
        UNION {RecordUrls(r) : r \in {q \in SourceRecords(S) : RecordName(q) = n}}]

Fetched == {i \in 1..Len(futures) : futures[i].fetched}
FetchedInTime == {i \in Fetched : futures[i].await = "merged"}

RunProducesBothArtifacts ==
    pc \in {"done", "crashed"} => m3u_file.state = "closed" /\ txt_file.state = "closed"

\* the (display name, URL) pairs of the playlist's entries and of the flat
\* listing's name,url lines
PlaylistPairs ==
    LET entries == SelectSeq(m3u_file.lines, IsEntry)
    IN  [i \in 1..Len(entries) |-> [name |-> entries[i].name, url |-> entries[i].url]]
FlatPairs == SelectSeq(txt_file.lines, IsEntry)

\* C13: at every moment of the render pass (announcements and channel
\* entries alike) the playlist's entries and the flat listing's name,url
\* lines carry the same (name, URL) pairs in the same order.
Lockstep == PlaylistPairs = FlatPairs

\* a complete run that wrote the announcement and two channel entries
LockstepWitness ==
    /\ pc = "done"
    /\ Len(PlaylistPairs) >= NumAnnounced + 2
    /\ Len(FlatPairs) >= NumAnnounced + 2

\* a step that calls _check_response_time, a worker of the fetch pool still
\* running, a future the merge loop has not reached, a channel entry written
ProbeIssued == probes'.calls # probes.calls
FetchInFlight == \E i \in 1..Len(futures) : futures[i].state = "running"
MergePending == \E i \in 1..Len(futures) : futures[i].await = "pending"
ChannelEntryWritten == Len(m3u_file.lines) > NumAnnounced + 1

\* C14: the run leaves the fetch/merge phase only when no fetch is in flight
\* and no merge is pending, probes are issued only after that, and every
\* probe of the run is issued before the first channel entry is written.
PhaseBarriers ==
    [][/\ (pc = "fetching" /\ pc' # "fetching") => ~FetchInFlight /\ ~MergePending
       /\ ProbeIssued =>
             /\ pc \in {"sorting", "rendering"}
             /\ ~FetchInFlight /\ ~MergePending
             /\ ~ChannelEntryWritten]_vars

\* C15: within one run _check_response_time is called at most once for each
\* distinct URL, whatever the number of channels and rankings it appears in.
ProbeOnce == \A u \in AllUrls : probes.calls[u] <= 1

\* a step in which a worker of the fetch pool finishes _process_source, and
\* the step of the main thread that merges the result it waited for
WorkerStep ==
    /\ Len(futures') = Len(futures)
    /\ \E i \in 1..Len(futures) : futures[i].state = "running" /\ futures'[i].state = "done"
MainMergeStep ==
    /\ pc = "fetching" /\ Pending # {}
    /\ Len(futures') = Len(futures)
    /\ futures'[NextFuture].await = "merged"

\* C19: insertions into all_channels are serialized: no step of a worker
\* thread changes all_channels, and every change of it is one merge in the
\* main thread's loop over the futures, in which no worker takes part.
SerializedInsertions ==
    [][/\ WorkerStep => all_channels' = all_channels
       /\ all_channels' # all_channels => MainMergeStep /\ ~WorkerStep]_vars

\* a result has been merged while another worker is still fetching
SerializedInsertionsWitness ==
    /\ pc = "fetching"
    /\ all_channels # <<>>
    /\ \E i \in 1..Len(futures) : futures[i].state = "running"

\* the merge, in the order of the source list, of the results of the sources S
RECURSIVE MergeSources(_, _, _)
MergeSources(index, i, S) ==
    IF i > Len(futures) THEN index
    ELSE MergeSources(IF i \in S THEN _merge_channels(index, futures[i].result) ELSE index,
                      i + 1, S)

=============================================================================
